---- MODULE Spec2Model ----
(***************************************************************************)
(* Model of the creative-agency pipeline (src/src/pipeline.py and its      *)
(* collaborators).  One call of CreativePipeline.run on a freshly built    *)
(* pipeline, as src/src/main.py performs it, is a sequential process whose *)
(* position is pc; the inputs (the campaign directory, the brief file and  *)
(* the aspect-ratio configuration) are drawn in Init, the answers of the   *)
(* external backends (image generation, translation) at the step that      *)
(* calls them.                                                             *)
(*                                                                         *)
(* Specifications: Spec is that one call; SpecTwin follows it by a run of  *)
(* a second pipeline on the brief with the other campaign message;         *)
(* SpecRerun lets run() be called again on the same object; SpecMain wraps *)
(* the run in main(), from construction to the exit code; SpecCalls calls  *)
(* the utility functions alone, on inputs of their own.                    *)
(*                                                                         *)
(* Conventions: an Optional value is <<>> (None) or <<v>>; a path is the   *)
(* sequence of its components relative to the campaign root; a colour      *)
(* string is the sequence of its characters.                               *)
(***************************************************************************)
EXTENDS Integers, Sequences, FiniteSets, TLC

VARIABLES
    files,              \* paths that exist under the campaign root
    brief_file,         \* brief.yaml: [status, data]
    config,             \* self.config['aspect_ratios']
    pc,                 \* position of run()
    brief,              \* the in-memory CampaignBrief (mutated by localization)
    original_message,   \* local of run()
    moderation_safe,    \* <<>> before moderation, then <<TRUE>> / <<FALSE>>
    warnings,           \* warnings returned by validate_brief
    pi,                 \* index of the product being processed (1-based)
    ri,                 \* index of the aspect ratio being processed (1-based)
    hero_image,         \* Optional image of the current product
    source,             \* "existing" / "generated" ("" before the first product)
    prompt_used,        \* Optional prompt of the current product
    attempt,            \* generate_with_retry: backend calls made for the current product
    last_error,         \* generate_with_retry: last_error
    with_text,          \* Optional rendered image of the current ratio
    logo_path,          \* Optional path found for the logo
    output_path,        \* Optional path returned by save_output
    generated_assets,   \* self.generated_assets
    compliance_results, \* self.compliance_results
    saves,              \* log of save_output calls: [product index, ratio name, path, text drawn]
    gen_calls,          \* log of generate_with_retry calls: the product index
    translate_calls,    \* number of translation backend calls
    translate_failed,   \* number of translation backend calls that failed
    find_calls,         \* log of find_asset calls: the reference looked up
    report,             \* Optional report (the value run() returns)
    error,              \* Optional error that left run()
    trace,              \* log of the steps run() went through
    runs,               \* number of run() calls made on the pipeline object
    exit,               \* Optional [code, prefix] the command ended with
    twin,               \* Optional outcome of the run on the twin brief
    arg,                \* Optional call of a utility function examined alone
    ret                 \* Optional result of that call

vars == << files, brief_file, config, pc, brief, original_message,
           moderation_safe, warnings, pi, ri, hero_image, source, prompt_used,
           attempt, last_error, with_text, logo_path, output_path,
           generated_assets, compliance_results, saves, gen_calls,
           translate_calls, translate_failed, find_calls, report, error,
           trace, runs, exit, twin, arg, ret >>

\* the state that lives outside one call of run()
outside == << runs, exit, twin, arg, ret >>

---------------------------------------------------------------------------
(* Bounds and program constants *)

MaxProducts == 2

MaxRuns == 2

MaxSide == 4

\* the longest backend script of a generate_with_retry call
MaxAttempts == 3

CHANNEL_MAX == 255

MAX_RETRIES == 3

TOLERANCE == 30

SAMPLE_SIZE == 100

None == << >>

Some(x) == << x >>

IsNone(o) == o = << >>

---------------------------------------------------------------------------
(* Sequence helpers *)

AllSeqsUpTo(S, n) == UNION { [1..k -> S] : k \in 0..n }

Last(s) == s[Len(s)]

Abs(x) == IF x < 0 THEN -x ELSE x

\* s[i:j] of Python for 0 <= i <= j: the characters at 0-based positions i..j-1
\* that exist.
Slice(s, i, j) ==
    LET hi == IF j < Len(s) THEN j ELSE Len(s)
    IN  IF i >= hi THEN << >> ELSE SubSeq(s, i + 1, hi)

\* sub in s, for sequences of characters
Contains(s, sub) ==
    \E k \in 0..(Len(s) - Len(sub)) : Slice(s, k, k + Len(sub)) = sub

---------------------------------------------------------------------------
(* The inputs: campaign directory, brief file, configuration *)

HeroPng == [width |-> 800, height |-> 600, pixels |-> { <<255, 0, 0>> }]

GeneratedImages ==
    { [width |-> 1024, height |-> 1024, pixels |-> { <<0, 255, 255>> }] }

InitialFiles ==
    { <<"assets", "hero.png">>, <<"assets", "logo.png">>, <<"logo.png">> }

Catalogue ==
    { [id |-> "p1", name |-> "Shampoo", description |-> "Gentle daily shampoo",
       hero_image |-> <<"photos", "hero.png">>],
      [id |-> "p2", name |-> "Conditioner", description |-> "Silky conditioner",
       hero_image |-> << >>],
      [id |-> "p1", name |-> "Shampoo XL", description |-> "Family size",
       hero_image |-> <<"missing.png">>] }

Languages == { <<"en", "US">>, <<"en">>, <<"en", "GB">>, <<"es">> }

Messages == { <<"P", "u", "r", "e">>, <<"C", "U", "R", "E", "S">> }

Brands ==
    { None,
      Some([logo |-> <<"logo.png">>,
            primary_color |-> <<"#", "F", "F", "0", "0", "0", "0">>,
            font |-> "Helvetica"]),
      Some([logo |-> <<"nologo.png">>, primary_color |-> <<"r", "e", "d">>,
            font |-> "Arial"]) }

Briefs ==
    { [campaign_id |-> "acme", products |-> ps,
       target_market |-> [region |-> "US", language |-> l],
       target_audience |-> "young adults", campaign_message |-> m,
       brand_elements |-> b] :
         ps \in AllSeqsUpTo(Catalogue, MaxProducts), l \in Languages,
         m \in Messages, b \in Brands }

EmptyBrief ==
    [campaign_id |-> "", products |-> << >>,
     target_market |-> [region |-> "", language |-> <<"en", "US">>],
     target_audience |-> "", campaign_message |-> << >>,
     brand_elements |-> None]

BriefFiles ==
    { [status |-> st, data |-> EmptyBrief] :
        st \in {"missing", "malformed", "schema_invalid"} }
    \cup { [status |-> "ok", data |-> b] : b \in Briefs }

DefaultConfig ==
    << [name |-> "square", ratio |-> <<1, 1>>, width |-> 1080, height |-> 1080],
       [name |-> "story", ratio |-> <<9, 16>>, width |-> 1080, height |-> 1920],
       [name |-> "landscape", ratio |-> <<16, 9>>, width |-> 1920, height |-> 1080] >>

Configs == { DefaultConfig, Tail(DefaultConfig) }

TextOverlayConfig ==
    [font_size_base |-> 72, padding |-> 60, text_color |-> "#FFFFFF",
     stroke_color |-> "#000000", stroke_width |-> 3, position |-> "bottom"]

---------------------------------------------------------------------------
(* brief_parser.py *)

\* not p.hero_image: None and the empty string are both falsy
MissingImages(products) ==
    LET names == [i \in 1..Len(products) |-> products[i].name]
        idx == { i \in 1..Len(products) : products[i].hero_image = << >> }
        RECURSIVE Pick(_)
        Pick(i) == IF i > Len(products) THEN << >>
                   ELSE (IF i \in idx THEN << names[i] >> ELSE << >>) \o Pick(i + 1)
    IN  Pick(1)

BriefWarnings(b) ==
    LET w1 == IF Len(b.products) < 2
              THEN << [kind |-> "product_count", count |-> Len(b.products)] >>
              ELSE << >>
        missing == MissingImages(b.products)
        w2 == IF missing # << >>
              THEN << [kind |-> "missing_hero_images", names |-> missing] >>
              ELSE << >>
        w3 == IF IsNone(b.brand_elements)
              THEN << [kind |-> "no_brand_elements"] >>
              ELSE << >>
    IN  w1 \o w2 \o w3

\* mutant: a brief is valid only when nothing at all is warned about
validate_brief_NoWarnings(b) ==
    [is_valid |-> BriefWarnings(b) = << >>, warnings |-> BriefWarnings(b)]

validate_brief(b) ==
    [is_valid |-> Len(b.products) >= 2, warnings |-> BriefWarnings(b)]

---------------------------------------------------------------------------
(* content_moderator.py *)

LowerChar(c) ==
    CASE c = "A" -> "a" [] c = "B" -> "b" [] c = "C" -> "c" [] c = "D" -> "d"
      [] c = "E" -> "e" [] c = "F" -> "f" [] c = "G" -> "g" [] c = "I" -> "i"
      [] c = "L" -> "l" [] c = "M" -> "m" [] c = "N" -> "n" [] c = "P" -> "p"
      [] c = "R" -> "r" [] c = "S" -> "s" [] c = "T" -> "t" [] c = "U" -> "u"
      [] OTHER -> c

Lower(s) == [i \in 1..Len(s) |-> LowerChar(s[i])]

DefaultTerms ==
    << <<"g", "u", "a", "r", "a", "n", "t", "e", "e", "d">>,
       <<"m", "i", "r", "a", "c", "l", "e">>,
       <<"c", "u", "r", "e">> >>

check_prohibited_terms(text) ==
    SelectSeq(DefaultTerms, LAMBDA term : Contains(Lower(text), Lower(term)))

\* the stub always answers "not flagged"
ai_moderation_check(text) == FALSE

moderate_text(text) ==
    [flagged |-> ai_moderation_check(text),
     prohibited_terms |-> check_prohibited_terms(text)]

is_safe(result) == ~result.flagged /\ Len(result.prohibited_terms) = 0

\* mutant: a flagged message raises whatever the mode
moderate_campaign_message_AlwaysStrict(message, strict) ==
    LET result == moderate_text(message)
    IN  IF ~is_safe(result)
        THEN [raised |-> TRUE, value |-> FALSE]
        ELSE [raised |-> FALSE, value |-> TRUE]

\* [raised, value]: raised is TRUE when the call leaves by ValueError
moderate_campaign_message(message, strict) ==
    LET result == moderate_text(message)
    IN  IF ~is_safe(result)
        THEN IF strict THEN [raised |-> TRUE, value |-> FALSE]
                       ELSE [raised |-> FALSE, value |-> FALSE]
        ELSE [raised |-> FALSE, value |-> TRUE]

---------------------------------------------------------------------------
(* localizer.py *)

LowerTag(t) ==
    CASE t = "EN" -> "en" [] t = "ES" -> "es" [] t = "JA" -> "ja" [] OTHER -> t

get_font_for_language(language) ==
    LET l == LowerTag(language)
    IN  CASE l = "en" -> "Arial"
          [] l = "es" -> "Arial"
          [] l = "ja" -> "Noto Sans JP"
          [] OTHER -> "Arial"

\* What the translation backend may answer for a text.
BackendTranslations(text) == { <<"P", "u", "r", "o">> }

\* mutant: a failure of the backend is answered with an empty text
translate_text_EmptyOnFailure(text, target_language, source_language) ==
    IF target_language = source_language
    THEN { [result |-> text, called |-> FALSE, failed |-> FALSE] }
    ELSE { [result |-> t, called |-> TRUE, failed |-> FALSE] :
             t \in BackendTranslations(text) }
         \cup { [result |-> << >>, called |-> TRUE, failed |-> TRUE] }

\* translate_text: the set of [result, called, failed] outcomes; called tells
\* whether the translation backend was invoked, failed whether it raised.
translate_text(text, target_language, source_language) ==
    IF target_language = source_language
    THEN { [result |-> text, called |-> FALSE, failed |-> FALSE] }
    ELSE { [result |-> t, called |-> TRUE, failed |-> FALSE] :
             t \in BackendTranslations(text) }
         \cup { [result |-> text, called |-> TRUE, failed |-> TRUE] }

---------------------------------------------------------------------------
(* asset_manager.py *)

\* mutant: the assets/ directory is looked at first
find_asset_AssetsFirst(fs, asset_path) ==
    IF asset_path = << >> THEN None
    ELSE IF <<"assets", Last(asset_path)>> \in fs
         THEN Some(<<"assets", Last(asset_path)>>)
    ELSE IF asset_path \in fs THEN Some(asset_path)
    ELSE None

\* find_asset on a directory state fs: Optional path
find_asset(fs, asset_path) ==
    IF asset_path = << >> THEN None
    ELSE IF asset_path \in fs THEN Some(asset_path)
    ELSE IF <<"assets", Last(asset_path)>> \in fs
         THEN Some(<<"assets", Last(asset_path)>>)
    ELSE None

\* load_image: [raised, image]; readable tells whether Image.open accepts
\* the file
load_image(fs, readable, image_path) ==
    IF image_path \notin fs
    THEN [raised |-> "FileNotFoundError", image |-> None]
    ELSE IF ~readable
    THEN [raised |-> "ValueError", image |-> None]
    ELSE [raised |-> "", image |-> Some(HeroPng)]

OutputFile(product_id, aspect_ratio_name) ==
    <<"output", product_id, aspect_ratio_name, "campaign_post.png">>

ReportPath == <<"output", "generation_report.yaml">>

---------------------------------------------------------------------------
(* image_generator.py *)

\* mutant: the colour line is appended whether or not there is a colour
build_prompt_AccentAlways(product_name, product_description, target_audience, brand_color) ==
    << <<"Professional product photography of ", product_name, ".">>,
       <<"Product details: ", product_description, ".">>,
       <<"Style: Clean, modern, appealing to ", target_audience, ".">>,
       <<"High quality, well-lit, studio setting.">>,
       <<"Incorporate ", brand_color, " color accent.">>,
       <<"Commercial photography, 4K quality.">> >>

\* The prompt is the sequence of its parts (joined by single spaces in the
\* code); brand_color is << >> for None and for the empty string, both falsy.
build_prompt(product_name, product_description, target_audience, brand_color) ==
    << <<"Professional product photography of ", product_name, ".">>,
       <<"Product details: ", product_description, ".">>,
       <<"Style: Clean, modern, appealing to ", target_audience, ".">>,
       <<"High quality, well-lit, studio setting.">> >>
    \o (IF brand_color # << >>
        THEN << <<"Incorporate ", brand_color, " color accent.">> >>
        ELSE << >>)
    \o << <<"Commercial photography, 4K quality.">> >>

\* the Exception generate() raises when the backend fails
GenerateError(product_name) ==
    [type |-> "Exception", text |-> "Failed to generate image for",
     product |-> product_name, attempts |-> 0]

\* the Exception generate_with_retry raises after the last attempt
RetryError(max_retries, last) ==
    [type |-> "Exception", text |-> "Failed after attempts",
     product |-> IF last = << >> THEN "" ELSE last[1].product,
     attempts |-> max_retries]

---------------------------------------------------------------------------
(* image_processor.py *)

\* The crop box <<left, top, right, bottom>> of smart_crop.  The code compares
\* and scales with float ratios; here the ratios are exact rationals, so
\* int(height * target_ratio) is the floor of height * tw / th.
CropBox(width, height, target_width, target_height) ==
    IF width * target_height > target_width * height
    THEN LET new_width == (height * target_width) \div target_height
             left == (width - new_width) \div 2
         IN  << left, 0, left + new_width, height >>
    ELSE LET new_height == (width * target_height) \div target_width
             top == (height - new_height) \div 2
         IN  << 0, top, width, top + new_height >>

\* crop to the box, then resize to exactly the target size
smart_crop(image, target_width, target_height) ==
    [width |-> target_width, height |-> target_height, pixels |-> image.pixels,
     crop |-> CropBox(image.width, image.height, target_width, target_height)]

resize_for_aspect_ratio(image, width, height) == smart_crop(image, width, height)

add_text_overlay(image, text) ==
    [width |-> image.width, height |-> image.height, pixels |-> image.pixels,
     crop |-> image.crop, text |-> text, logo |-> None]

add_logo(fs, image, logo) ==
    IF logo \notin fs THEN image ELSE [image EXCEPT !.logo = Some(logo)]

---------------------------------------------------------------------------
(* brand_compliance.py *)

HexDigits ==
    << "0", "1", "2", "3", "4", "5", "6", "7", "8", "9",
       "A", "B", "C", "D", "E", "F" >>

UpperHex(c) ==
    CASE c = "a" -> "A" [] c = "b" -> "B" [] c = "c" -> "C" [] c = "d" -> "D"
      [] c = "e" -> "E" [] c = "f" -> "F" [] OTHER -> c

IsHexDigit(c) == \E k \in 1..Len(HexDigits) : HexDigits[k] = UpperHex(c)

HexDigitValue(c) == (CHOOSE k \in 1..Len(HexDigits) : HexDigits[k] = UpperHex(c)) - 1

\* hex_color.lstrip('#')
RECURSIVE LStripHash(_)
LStripHash(s) ==
    IF s # << >> /\ Head(s) = "#" THEN LStripHash(Tail(s)) ELSE s

\* text.strip() for blanks
RECURSIVE StripSpaces(_)
StripSpaces(s) ==
    IF s # << >> /\ Head(s) = " " THEN StripSpaces(Tail(s))
    ELSE IF s # << >> /\ Last(s) = " " THEN StripSpaces(SubSeq(s, 1, Len(s) - 1))
    ELSE s

\* int(text, 16) on a slice of at most two characters: Optional value
\* (None stands for the ValueError).  int() drops surrounding blanks and
\* takes one sign before the digits.
IntBase16(text) ==
    LET t == StripSpaces(text)
        signed == t # << >> /\ Head(t) \in {"+", "-"}
        digits == IF signed THEN Tail(t) ELSE t
        value == IF Len(digits) = 1 THEN HexDigitValue(digits[1])
                 ELSE 16 * HexDigitValue(digits[1]) + HexDigitValue(digits[2])
    IN  IF digits = << >> \/ \E i \in 1..Len(digits) : ~IsHexDigit(digits[i])
        THEN None
        ELSE IF signed /\ Head(t) = "-" THEN Some(0 - value)
        ELSE Some(value)

\* mutant: the channels are taken in the order blue, green, red
hex_to_rgb_Reversed(hex_color) ==
    LET h == LStripHash(hex_color)
        r == IntBase16(Slice(h, 4, 6))
        g == IntBase16(Slice(h, 2, 4))
        b == IntBase16(Slice(h, 0, 2))
    IN  IF IsNone(r) \/ IsNone(g) \/ IsNone(b) THEN None
        ELSE Some(<< r[1], g[1], b[1] >>)

\* _hex_to_rgb: Optional <<r, g, b>> (None stands for the ValueError)
hex_to_rgb(hex_color) ==
    LET h == LStripHash(hex_color)
        r == IntBase16(Slice(h, 0, 2))
        g == IntBase16(Slice(h, 2, 4))
        b == IntBase16(Slice(h, 4, 6))
    IN  IF IsNone(r) \/ IsNone(g) \/ IsNone(b) THEN None
        ELSE Some(<< r[1], g[1], b[1] >>)

\* mutant: a difference of exactly the tolerance still matches
PixelMatches_Inclusive(pixel, brand_rgb) ==
    /\ Abs(pixel[1] - brand_rgb[1]) <= TOLERANCE
    /\ Abs(pixel[2] - brand_rgb[2]) <= TOLERANCE
    /\ Abs(pixel[3] - brand_rgb[3]) <= TOLERANCE

PixelMatches(pixel, brand_rgb) ==
    /\ Abs(pixel[1] - brand_rgb[1]) < TOLERANCE
    /\ Abs(pixel[2] - brand_rgb[2]) < TOLERANCE
    /\ Abs(pixel[3] - brand_rgb[3]) < TOLERANCE

\* check_color_presence; image.pixels are the colours of the SAMPLE_SIZE x
\* SAMPLE_SIZE sample of the image
check_color_presence(brand_color, image) ==
    IF brand_color = << >>
    THEN [passed |-> TRUE, score |-> 100, message |-> "skipped"]
    ELSE LET brand_rgb == hex_to_rgb(brand_color)
         IN  IF IsNone(brand_rgb)
             THEN [passed |-> FALSE, score |-> 0, message |-> "check failed"]
             ELSE IF \E pixel \in image.pixels : PixelMatches(pixel, brand_rgb[1])
             THEN [passed |-> TRUE, score |-> 100, message |-> "detected"]
             ELSE [passed |-> FALSE, score |-> 50,
                   message |-> "not prominently featured"]

run_brand_checks(brand_color, image) ==
    LET color_check == check_color_presence(brand_color, image)
    IN  [overall_passed |-> color_check.passed,
         overall_score |-> color_check.score,
         checks |-> [color_presence |-> color_check]]

---------------------------------------------------------------------------
(* pipeline.py: helpers of run() *)

EnglishCodes == { <<"en", "US">>, <<"en">> }

\* mutant: only 'en-US' is taken for English
NeedsLocalization_OnlyUS(language) == language # <<"en", "US">>

\* brief.target_market.language != 'en-US' and ... != 'en'
NeedsLocalization(language) == language \notin EnglishCodes

\* brief.brand_elements.primary_color if brief.brand_elements else None
BrandColor(b) ==
    IF IsNone(b.brand_elements) THEN << >> ELSE b.brand_elements[1].primary_color

\* brief.brand_elements and brief.brand_elements.logo
HasLogo(b) ==
    ~IsNone(b.brand_elements) /\ b.brand_elements[1].logo # << >>

\* mutant: the check runs for every ratio
IsComplianceRatio_EveryRatio(ratio) == TRUE

\* if ratio.name == 'square'
IsComplianceRatio(ratio) == ratio.name = "square"

\* mutant: the loop gives up one attempt early
MoreAttempts_OneShort(made, max_retries) == made < max_retries - 1

\* for attempt in range(max_retries): another attempt follows `made` failures
MoreAttempts(made, max_retries) == made < max_retries

\* mutant: the validation result is only logged
BriefRejected_Never(v) == FALSE

\* if not is_valid: raise ValueError
BriefRejected(v) == ~v.is_valid

\* mutant: the prompt of the previous product is left in place
ExistingPromptUsed_Stale == prompt_used

\* prompt_used of a product whose hero image was found on disk
ExistingPromptUsed == None

Step(name, p, r) == [step |-> name, p |-> p, r |-> r]

\* mutant: the report is written as soon as one product is through
AfterProduct_ReportFirst(b, p) == [pc |-> "report", pi |-> p, ri |-> 0]

\* where run() continues after the last ratio of product p
AfterProduct(b, p) ==
    IF p < Len(b.products) THEN [pc |-> "product", pi |-> p + 1, ri |-> 0]
    ELSE [pc |-> "report", pi |-> p, ri |-> 0]

\* where run() continues once the hero image of product p is there
EnterRatios(b, cfg, p) ==
    IF Len(cfg) >= 1 THEN [pc |-> "ratio", pi |-> p, ri |-> 1]
    ELSE AfterProduct(b, p)

\* where run() continues after ratio r of product p
AfterRatio(b, cfg, p, r) ==
    IF r < Len(cfg) THEN [pc |-> "ratio", pi |-> p, ri |-> r + 1]
    ELSE AfterProduct(b, p)

\* mutant: a failed check skips the save of that render
AfterCompliance_Gating(b, cfg, p, r, result) ==
    IF result.overall_passed THEN [pc |-> "save", pi |-> p, ri |-> r]
    ELSE AfterRatio(b, cfg, p, r)

\* where run() continues after the compliance check of ratio r of product p:
\* whatever the result, at the save of that render
AfterCompliance(b, cfg, p, r, result) == [pc |-> "save", pi |-> p, ri |-> r]

\* mutant: the failure is caught per product and the run goes on
AfterExhausted_Continue(b, p) ==
    IF p < Len(b.products) THEN [pc |-> "product", pi |-> p + 1, ri |-> 0]
    ELSE [pc |-> "report", pi |-> p, ri |-> 0]

\* where run() continues when generate_with_retry raised for product p:
\* nothing in run() catches the exception
AfterExhausted(b, p) == [pc |-> "aborted", pi |-> p, ri |-> 0]

\* mutant: the overlay keeps the message as it was in the brief file
OverlayText_Original(b, original) == original

\* text=brief.campaign_message of the add_text_overlay call
OverlayText(b, original) == b.campaign_message

GeneratedAsset(product, ratio, path, src, prompt) ==
    [product_id |-> product.id, product_name |-> product.name,
     aspect_ratio |-> ratio.name, file_path |-> path, source |-> src,
     prompt_used |-> prompt]

\* mutant: the variants are collected last-first
ProductReport_Reversed(product, assets, results) ==
    LET product_assets == SelectSeq(assets, LAMBDA a : a.product_id = product.id)
        matching == SelectSeq(results, LAMBDA r : r.product_id = product.id)
        n == Len(product_assets)
    IN  [product_id |-> product.id,
         product_name |-> product.name,
         source |-> IF product_assets # << >> THEN product_assets[1].source
                    ELSE "unknown",
         prompt_used |-> IF product_assets # << >> THEN product_assets[1].prompt_used
                         ELSE None,
         compliance |-> IF matching # << >> THEN Some(matching[1].compliance)
                        ELSE None,
         variants |-> [i \in 1..n |->
                         [aspect_ratio |-> product_assets[n + 1 - i].aspect_ratio,
                          file_path |-> product_assets[n + 1 - i].file_path]]]

ProductReport(product, assets, results) ==
    LET product_assets == SelectSeq(assets, LAMBDA a : a.product_id = product.id)
        matching == SelectSeq(results, LAMBDA r : r.product_id = product.id)
    IN  [product_id |-> product.id,
         product_name |-> product.name,
         source |-> IF product_assets # << >> THEN product_assets[1].source
                    ELSE "unknown",
         prompt_used |-> IF product_assets # << >> THEN product_assets[1].prompt_used
                         ELSE None,
         compliance |-> IF matching # << >> THEN Some(matching[1].compliance)
                        ELSE None,
         variants |-> [i \in 1..Len(product_assets) |->
                         [aspect_ratio |-> product_assets[i].aspect_ratio,
                          file_path |-> product_assets[i].file_path]]]

\* mutant: the reused assets are counted under the wrong source name
Statistics_WrongSource(b, assets, results) ==
    [total_products |-> Len(b.products),
     total_assets |-> Len(assets),
     assets_generated |-> Len(SelectSeq(assets, LAMBDA a : a.source = "generated")),
     assets_reused |-> Len(SelectSeq(assets, LAMBDA a : a.source = "reused")),
     compliance_passed |->
         Len(SelectSeq(results, LAMBDA r : r.compliance.overall_passed)),
     compliance_total |-> Len(results)]

Statistics(b, assets, results) ==
    [total_products |-> Len(b.products),
     total_assets |-> Len(assets),
     assets_generated |-> Len(SelectSeq(assets, LAMBDA a : a.source = "generated")),
     assets_reused |-> Len(SelectSeq(assets, LAMBDA a : a.source = "existing")),
     compliance_passed |->
         Len(SelectSeq(results, LAMBDA r : r.compliance.overall_passed)),
     compliance_total |-> Len(results)]

generate_report(b, original, assets, results) ==
    [campaign_id |-> b.campaign_id,
     localization |->
         [enabled |-> b.target_market.language \notin EnglishCodes,
          target_language |-> b.target_market.language,
          original_message |-> original,
          localized_message |->
              IF b.target_market.language \notin EnglishCodes
              THEN Some(b.campaign_message) ELSE None],
     products |-> [i \in 1..Len(b.products) |->
                     ProductReport(b.products[i], assets, results)],
     statistics |-> Statistics(b, assets, results)]

---------------------------------------------------------------------------
(* pipeline.py: CreativePipeline.run, one action per step *)

\* The pipeline object and the locals of run() at position p, over the
\* campaign directory fs, the brief file bf and the configuration cfg.
InitState(p, fs, bf, cfg) ==
    /\ files = fs
    /\ brief_file = bf
    /\ config = cfg
    /\ pc = p
    /\ brief = EmptyBrief
    /\ original_message = << >>
    /\ moderation_safe = None
    /\ warnings = << >>
    /\ pi = 0
    /\ ri = 0
    /\ hero_image = None
    /\ source = ""
    /\ prompt_used = None
    /\ attempt = 0
    /\ last_error = None
    /\ with_text = None
    /\ logo_path = None
    /\ output_path = None
    /\ generated_assets = << >>
    /\ compliance_results = << >>
    /\ saves = << >>
    /\ gen_calls = << >>
    /\ translate_calls = 0
    /\ translate_failed = 0
    /\ find_calls = << >>
    /\ report = None
    /\ error = None
    /\ trace = << >>

\* A freshly constructed pipeline on which run() is about to be called once.
Init ==
    /\ \E bf \in BriefFiles, cfg \in Configs :
         InitState("start", InitialFiles, bf, cfg)
    /\ runs = 1
    /\ exit = None
    /\ twin = None
    /\ arg = None
    /\ ret = None

Raise(type, text, product, attempts) ==
    [type |-> type, text |-> text, product |-> product, attempts |-> attempts]

\* Step 1: parse and validate the brief
ParseBrief ==
    /\ pc = "start"
    /\ trace' = Append(trace, Step("parse", 0, 0))
    /\ IF brief_file.status = "missing"
       THEN /\ error' = Some(Raise("FileNotFoundError", "Brief file not found", "", 0))
            /\ pc' = "aborted"
            /\ UNCHANGED << brief, warnings >>
       ELSE IF brief_file.status = "malformed"
       THEN /\ error' = Some(Raise("YAMLError", "yaml.safe_load", "", 0))
            /\ pc' = "aborted"
            /\ UNCHANGED << brief, warnings >>
       ELSE IF brief_file.status = "schema_invalid"
       THEN /\ error' = Some(Raise("ValueError", "Invalid brief format", "", 0))
            /\ pc' = "aborted"
            /\ UNCHANGED << brief, warnings >>
       ELSE LET v == validate_brief(brief_file.data)
            IN  /\ brief' = brief_file.data
                /\ warnings' = v.warnings
                /\ IF BriefRejected(v)
                   THEN /\ error' = Some(Raise("ValueError", "Invalid brief", "", 0))
                        /\ pc' = "aborted"
                   ELSE /\ pc' = "moderate"
                        /\ UNCHANGED error
    /\ UNCHANGED << files, brief_file, config, original_message,
                    moderation_safe, pi, ri, hero_image, source, prompt_used,
                    attempt, last_error, with_text, logo_path, output_path,
                    generated_assets, compliance_results, saves, gen_calls,
                    translate_calls, translate_failed, find_calls, report >>
    /\ UNCHANGED outside

\* Step 1.5: content moderation, non-strict
Moderate ==
    /\ pc = "moderate"
    /\ trace' = Append(trace, Step("moderate", 0, 0))
    /\ LET m == moderate_campaign_message(brief.campaign_message, FALSE)
       IN  IF m.raised
           THEN /\ error' = Some(Raise("ValueError", "failed moderation", "", 0))
                /\ pc' = "aborted"
                /\ UNCHANGED moderation_safe
           ELSE /\ moderation_safe' = Some(m.value)
                /\ pc' = "localize"
                /\ UNCHANGED error
    /\ UNCHANGED << files, brief_file, config, brief, original_message,
                    warnings, pi, ri, hero_image, source, prompt_used, attempt,
                    last_error, with_text, logo_path, output_path,
                    generated_assets, compliance_results, saves, gen_calls,
                    translate_calls, translate_failed, find_calls, report >>
    /\ UNCHANGED outside

\* Step 1.6: localization
Localize ==
    /\ pc = "localize"
    /\ trace' = Append(trace, Step("localize", 0, 0))
    /\ original_message' = brief.campaign_message
    /\ IF NeedsLocalization(brief.target_market.language)
       THEN LET target_lang == brief.target_market.language[1]
            IN  \E o \in translate_text(brief.campaign_message, target_lang, "en") :
                  /\ brief' =
                       [brief EXCEPT
                          !.campaign_message = o.result,
                          !.brand_elements =
                              IF IsNone(@) THEN @
                              ELSE Some([@[1] EXCEPT
                                           !.font = get_font_for_language(target_lang)])]
                  /\ translate_calls' = translate_calls + (IF o.called THEN 1 ELSE 0)
                  /\ translate_failed' = translate_failed + (IF o.failed THEN 1 ELSE 0)
       ELSE UNCHANGED << brief, translate_calls, translate_failed >>
    /\ LET nxt == IF Len(brief.products) >= 1
                  THEN [pc |-> "product", pi |-> 1, ri |-> 0]
                  ELSE [pc |-> "report", pi |-> 0, ri |-> 0]
       IN  pc' = nxt.pc /\ pi' = nxt.pi /\ ri' = nxt.ri
    /\ UNCHANGED << files, brief_file, config, moderation_safe, warnings,
                    hero_image, source, prompt_used, attempt, last_error,
                    with_text, logo_path, output_path, generated_assets,
                    compliance_results, saves, gen_calls, find_calls, report,
                    error >>
    /\ UNCHANGED outside

\* Step 2, head of the product loop: look for the hero image, load it if
\* found.  attempt and last_error, locals of generate_with_retry, keep what the
\* last call left in them until the next product starts.
ResolveAsset ==
    /\ pc = "product"
    /\ trace' = Append(trace, Step("resolve", pi, 0))
    /\ LET product == brief.products[pi]
           hero_image_path == find_asset(files, product.hero_image)
       IN  /\ find_calls' = Append(find_calls, product.hero_image)
           /\ IF ~IsNone(hero_image_path)
              THEN \E readable \in BOOLEAN :
                   LET loaded == load_image(files, readable, hero_image_path[1])
                   IN  IF loaded.raised # ""
                       THEN /\ error' = Some(Raise(loaded.raised,
                                                   "Failed to load image", "", 0))
                            /\ pc' = "aborted"
                            /\ UNCHANGED << pi, ri, hero_image, source, prompt_used,
                                            attempt, last_error >>
                       ELSE LET nxt == EnterRatios(brief, config, pi)
                            IN  /\ hero_image' = loaded.image
                                /\ source' = "existing"
                                /\ prompt_used' = ExistingPromptUsed
                                /\ pc' = nxt.pc /\ pi' = nxt.pi /\ ri' = nxt.ri
                                /\ attempt' = 0
                                /\ last_error' = None
                                /\ UNCHANGED error
              ELSE /\ pc' = "generate"
                   /\ attempt' = 0
                   /\ last_error' = None
                   /\ UNCHANGED << pi, ri, hero_image, source, prompt_used, error >>
    /\ UNCHANGED << files, brief_file, config, brief, original_message,
                    moderation_safe, warnings, with_text, logo_path, output_path,
                    generated_assets, compliance_results, saves, gen_calls,
                    translate_calls, translate_failed, report >>
    /\ UNCHANGED outside

\* generate_with_retry: one pass of the retry loop, the backend answering
GenerateSucceeds ==
    /\ pc = "generate"
    /\ trace' = IF attempt = 0 THEN Append(trace, Step("generate", pi, 0)) ELSE trace
    /\ gen_calls' = IF attempt = 0 THEN Append(gen_calls, pi) ELSE gen_calls
    /\ attempt' = attempt + 1
    /\ \E image \in GeneratedImages :
         LET product == brief.products[pi]
             nxt == EnterRatios(brief, config, pi)
         IN  /\ hero_image' = Some(image)
             /\ prompt_used' = Some(build_prompt(product.name, product.description,
                                                 brief.target_audience,
                                                 BrandColor(brief)))
             /\ source' = "generated"
             /\ pc' = nxt.pc /\ pi' = nxt.pi /\ ri' = nxt.ri
    /\ UNCHANGED << files, brief_file, config, brief, original_message,
                    moderation_safe, warnings, last_error, with_text, logo_path,
                    output_path, generated_assets, compliance_results, saves,
                    translate_calls, translate_failed, find_calls, report, error >>
    /\ UNCHANGED outside

\* generate_with_retry: one pass of the retry loop, the backend failing
GenerateFails ==
    /\ pc = "generate"
    /\ trace' = IF attempt = 0 THEN Append(trace, Step("generate", pi, 0)) ELSE trace
    /\ gen_calls' = IF attempt = 0 THEN Append(gen_calls, pi) ELSE gen_calls
    /\ attempt' = attempt + 1
    /\ last_error' = Some(GenerateError(brief.products[pi].name))
    /\ IF MoreAttempts(attempt + 1, MAX_RETRIES)
       THEN UNCHANGED << pc, pi, ri, error >>
       ELSE LET nxt == AfterExhausted(brief, pi)
            IN  /\ error' = Some(RetryError(MAX_RETRIES, last_error'))
                /\ pc' = nxt.pc /\ pi' = nxt.pi /\ ri' = nxt.ri
    /\ UNCHANGED << files, brief_file, config, brief, original_message,
                    moderation_safe, warnings, hero_image, source,
                    prompt_used, with_text, logo_path, output_path,
                    generated_assets, compliance_results, saves,
                    translate_calls, translate_failed,
                    find_calls, report >>
    /\ UNCHANGED outside

\* Step 3, head of the ratio loop: resize, text overlay, logo
Render ==
    /\ pc = "ratio"
    /\ trace' = Append(trace, Step("render", pi, ri))
    /\ LET ratio == config[ri]
           resized == resize_for_aspect_ratio(hero_image[1], ratio.width, ratio.height)
           overlaid == add_text_overlay(resized, OverlayText(brief, original_message))
           found == IF HasLogo(brief)
                    THEN find_asset(files, brief.brand_elements[1].logo)
                    ELSE None
       IN  /\ find_calls' = IF HasLogo(brief)
                            THEN Append(find_calls, brief.brand_elements[1].logo)
                            ELSE find_calls
           /\ logo_path' = IF HasLogo(brief) THEN found ELSE logo_path
           /\ with_text' = Some(IF IsNone(found) THEN overlaid
                                ELSE add_logo(files, overlaid, found[1]))
           /\ pc' = IF IsComplianceRatio(ratio) THEN "compliance" ELSE "save"
    /\ UNCHANGED << files, brief_file, config, brief, original_message,
                    moderation_safe, warnings, pi, ri, hero_image, source,
                    prompt_used, attempt, last_error, output_path,
                    generated_assets, compliance_results, saves, gen_calls,
                    translate_calls, translate_failed, report, error >>
    /\ UNCHANGED outside

\* Step 4: brand compliance check of the square render
ComplianceCheck ==
    /\ pc = "compliance"
    /\ trace' = Append(trace, Step("compliance", pi, ri))
    /\ LET product == brief.products[pi]
           compliance_result == run_brand_checks(BrandColor(brief), with_text[1])
           nxt == AfterCompliance(brief, config, pi, ri, compliance_result)
       IN  /\ compliance_results' =
                 Append(compliance_results,
                        [product_id |-> product.id, product_name |-> product.name,
                         compliance |-> compliance_result])
           /\ pc' = nxt.pc /\ pi' = nxt.pi /\ ri' = nxt.ri
    /\ UNCHANGED << files, brief_file, config, brief, original_message,
                    moderation_safe, warnings, hero_image, source,
                    prompt_used, attempt, last_error, with_text, logo_path,
                    output_path, generated_assets, saves, gen_calls,
                    translate_calls, translate_failed, find_calls, report, error >>
    /\ UNCHANGED outside

\* save_output
SaveOutput ==
    /\ pc = "save"
    /\ trace' = Append(trace, Step("save", pi, ri))
    /\ LET path == OutputFile(brief.products[pi].id, config[ri].name)
       IN  /\ files' = files \cup { path }
           /\ saves' = Append(saves, [product |-> pi, ratio |-> config[ri].name,
                                      path |-> path, text |-> with_text[1].text])
           /\ output_path' = Some(path)
    /\ pc' = "record"
    /\ UNCHANGED << brief_file, config, brief, original_message,
                    moderation_safe, warnings, pi, ri, hero_image, source,
                    prompt_used, attempt, last_error, with_text, logo_path,
                    generated_assets, compliance_results, gen_calls,
                    translate_calls, translate_failed, find_calls, report, error >>
    /\ UNCHANGED outside

\* self.generated_assets.append(...), then on to the next ratio or product
RecordAsset ==
    /\ pc = "record"
    /\ trace' = Append(trace, Step("record", pi, ri))
    /\ generated_assets' =
           Append(generated_assets,
                  GeneratedAsset(brief.products[pi], config[ri], output_path[1],
                                 source, prompt_used))
    /\ LET nxt == AfterRatio(brief, config, pi, ri)
       IN  pc' = nxt.pc /\ pi' = nxt.pi /\ ri' = nxt.ri
    /\ UNCHANGED << files, brief_file, config, brief, original_message,
                    moderation_safe, warnings, hero_image, source, prompt_used,
                    attempt, last_error, with_text, logo_path, output_path,
                    compliance_results, saves, gen_calls,
                    translate_calls, translate_failed,
                    find_calls, report, error >>
    /\ UNCHANGED outside

\* Step 5: assemble the report and write it
WriteReport ==
    /\ pc = "report"
    /\ trace' = Append(trace, Step("report", 0, 0))
    /\ report' = Some(generate_report(brief, original_message, generated_assets,
                                      compliance_results))
    /\ files' = files \cup { ReportPath }
    /\ pc' = "done"
    /\ UNCHANGED << brief_file, config, brief, original_message,
                    moderation_safe, warnings, pi, ri, hero_image, source,
                    prompt_used, attempt, last_error, with_text, logo_path,
                    output_path, generated_assets, compliance_results, saves,
                    gen_calls, translate_calls, translate_failed, find_calls, error >>
    /\ UNCHANGED outside

Next ==
    \/ ParseBrief
    \/ Moderate
    \/ Localize
    \/ ResolveAsset
    \/ GenerateSucceeds
    \/ GenerateFails
    \/ Render
    \/ ComplianceCheck
    \/ SaveOutput
    \/ RecordAsset
    \/ WriteReport

Spec == Init /\ [][Next]_vars

---------------------------------------------------------------------------
(* A pair of runs on two briefs that differ in the campaign message only *)

\* the locals of run() and the logs kept about one call, as a new call
\* finds them
FreshCall ==
    /\ pc' = "start"
    /\ brief' = EmptyBrief
    /\ original_message' = << >>
    /\ moderation_safe' = None
    /\ warnings' = << >>
    /\ pi' = 0
    /\ ri' = 0
    /\ hero_image' = None
    /\ source' = ""
    /\ prompt_used' = None
    /\ attempt' = 0
    /\ last_error' = None
    /\ with_text' = None
    /\ logo_path' = None
    /\ output_path' = None
    /\ saves' = << >>
    /\ gen_calls' = << >>
    /\ translate_calls' = 0
    /\ translate_failed' = 0
    /\ find_calls' = << >>
    /\ report' = None
    /\ error' = None
    /\ trace' = << >>

\* the other campaign message: one of the two contains a prohibited term
TwinMessage(m) == CHOOSE t \in Messages : t # m

TwinBriefFile(bf) == [bf EXCEPT !.data.campaign_message = TwinMessage(@)]

\* what a completed run produced
Outcome ==
    [flagged |-> moderation_safe = Some(FALSE),
     assets |-> generated_assets,
     compliance |-> compliance_results,
     statistics |-> report[1].statistics]

\* After a completed run its outcome is put aside, and a new pipeline is
\* constructed over the same campaign directory as it was at the start and run
\* on the twin brief.
RunOnTwin ==
    /\ pc = "done"
    /\ IsNone(twin)
    /\ twin' = Some(Outcome)
    /\ FreshCall
    /\ files' = InitialFiles
    /\ brief_file' = TwinBriefFile(brief_file)
    /\ generated_assets' = << >>
    /\ compliance_results' = << >>
    /\ UNCHANGED << config, runs, exit, arg, ret >>

NextTwin ==
    \/ Next
    \/ RunOnTwin

SpecTwin == Init /\ [][NextTwin]_vars

---------------------------------------------------------------------------
(* Several calls of run() on one pipeline object *)

\* run() is called again on the same object, with the same brief file name,
\* after the previous call returned or raised.  The lists the object holds are
\* set in __init__ only, so the new call finds them as the last one left
\* them; so it does the campaign directory.
RunAgain ==
    /\ pc \in {"done", "aborted"}
    /\ runs < MaxRuns
    /\ runs' = runs + 1
    /\ FreshCall
    /\ UNCHANGED << files, brief_file, config, generated_assets,
                    compliance_results, exit, twin, arg, ret >>

NextRerun ==
    \/ Next
    \/ RunAgain

SpecRerun == Init /\ [][NextRerun]_vars

---------------------------------------------------------------------------
(* main.py: the command *)

\* mutant: the last handler prints and forgets to exit with 1
ExitFor_GenericExitsZero(err) ==
    IF IsNone(err) THEN [code |-> 0, prefix |-> "Pipeline completed successfully"]
    ELSE IF err[1].type = "FileNotFoundError" THEN [code |-> 1, prefix |-> "Error"]
    ELSE IF err[1].type = "ValueError" THEN [code |-> 1, prefix |-> "Validation Error"]
    ELSE [code |-> 0, prefix |-> "Pipeline Error"]

\* the exit code and the message prefix main() ends with, given the error
\* (if any) that reached its try block; the handlers are tried in the order
\* FileNotFoundError, ValueError, Exception
ExitFor(err) ==
    IF IsNone(err) THEN [code |-> 0, prefix |-> "Pipeline completed successfully"]
    ELSE IF err[1].type = "FileNotFoundError" THEN [code |-> 1, prefix |-> "Error"]
    ELSE IF err[1].type = "ValueError" THEN [code |-> 1, prefix |-> "Validation Error"]
    ELSE [code |-> 1, prefix |-> "Pipeline Error"]

InitMain ==
    /\ \E bf \in BriefFiles, cfg \in Configs :
         InitState("construct", InitialFiles, bf, cfg)
    /\ runs = 1
    /\ exit = None
    /\ twin = None
    /\ arg = None
    /\ ret = None

\* CreativePipeline(campaign_path): ImageGenerator() raises ValueError when
\* the environment has no OPENAI_API_KEY
Construct ==
    /\ pc = "construct"
    /\ \E api_key \in BOOLEAN :
         IF api_key
         THEN /\ pc' = "start"
              /\ UNCHANGED error
         ELSE /\ pc' = "aborted"
              /\ error' = Some(Raise("ValueError", "OpenAI API key required", "", 0))
    /\ UNCHANGED << files, brief_file, config, brief, original_message,
                    moderation_safe, warnings, pi, ri, hero_image, source,
                    prompt_used, attempt, last_error, with_text, logo_path,
                    output_path, generated_assets, compliance_results, saves,
                    gen_calls, translate_calls, translate_failed, find_calls,
                    report, trace >>
    /\ UNCHANGED outside

\* the end of main(): the success message, or the handler of the error
MainExit ==
    /\ pc \in {"done", "aborted"}
    /\ IsNone(exit)
    /\ exit' = Some(ExitFor(error))
    /\ UNCHANGED << files, brief_file, config, pc, brief, original_message,
                    moderation_safe, warnings, pi, ri, hero_image, source,
                    prompt_used, attempt, last_error, with_text, logo_path,
                    output_path, generated_assets, compliance_results, saves,
                    gen_calls, translate_calls, translate_failed, find_calls,
                    report, error, trace, runs, twin, arg, ret >>

NextMain ==
    \/ Construct
    \/ Next
    \/ MainExit

SpecMain == InitMain /\ [][NextMain]_vars

---------------------------------------------------------------------------
(* The utility functions, each called alone on inputs of its own *)

\* a colour as the hex string a brief carries: '#RRGGBB'
HexByte(c) == << HexDigits[(c \div 16) + 1], HexDigits[(c % 16) + 1] >>

HexColor(rgb) == <<"#">> \o HexByte(rgb[1]) \o HexByte(rgb[2]) \o HexByte(rgb[3])

\* the channel-negated colour
Negate(rgb) == << CHANNEL_MAX - rgb[1], CHANNEL_MAX - rgb[2], CHANNEL_MAX - rgb[3] >>

\* an image of one colour; its 100 x 100 sample has that colour only
Filled(rgb) == [width |-> 1080, height |-> 1080, pixels |-> { rgb }]

\* brand colours: one channel takes every value, the other two are 0 or 128
SweepColors ==
    { << c, a, b >> : c \in 0..CHANNEL_MAX, a \in {0, 128}, b \in {0, 128} }
    \cup { << a, c, b >> : c \in 0..CHANNEL_MAX, a \in {0, 128}, b \in {0, 128} }
    \cup { << a, b, c >> : c \in 0..CHANNEL_MAX, a \in {0, 128}, b \in {0, 128} }

\* check_color_presence on an image filled with the brand colour itself and
\* on an image filled with its negation; channels tells the colour the brand
\* colour string was written from
SweepCalls ==
    { [fn |-> "check_color_presence", brand_color |-> HexColor(rgb),
       image |-> Filled(rgb), channels |-> rgb] : rgb \in SweepColors }
    \cup { [fn |-> "check_color_presence", brand_color |-> HexColor(rgb),
            image |-> Filled(Negate(rgb)), channels |-> rgb] : rgb \in SweepColors }

\* brand colour strings as a brief may carry them: none, well-formed with
\* and without '#', too short, not hex at all, signed
BrandColorStrings ==
    { << >>,
      <<"#", "6", "4", "6", "4", "6", "4">>,
      <<"6", "4", "6", "4", "6", "4">>,
      <<"#", "#", "6", "4", "6", "4", "6", "4">>,
      <<"#", "6", "4", "6", "4", "6">>,
      <<"#", "F", "F", "F">>,
      <<"r", "e", "d">>,
      <<"#", "G", "G", "0", "0", "0", "0">>,
      <<"#", "-", "1", "-", "1", "-", "1">> }

\* samples around the colour (100, 100, 100) = '#646464'
NearGreyPixels ==
    { << 100 + d, 100, 100 >> : d \in {-30, -29, 0, 29, 30} }
    \cup { << 100, 100 + d, 100 >> : d \in {-30, -29, 29, 30} }
    \cup { << 100, 100, 100 + d >> : d \in {-30, -29, 29, 30} }
    \cup { << 129, 71, 129 >>, << 129, 130, 100 >>, << 0, 0, 0 >>, << 6, 100, 100 >> }

SampledImages ==
    { Filled(px) : px \in NearGreyPixels }
    \cup { [width |-> 1080, height |-> 1080, pixels |-> { << 0, 0, 0 >>, px }] :
             px \in NearGreyPixels }

ColorCalls ==
    { [fn |-> "check_color_presence", brand_color |-> bc, image |-> im,
       channels |-> << >>] : bc \in BrandColorStrings, im \in SampledImages }

\* sides of source images: the small ones, the configured ones, extreme ones
Sides == (1..MaxSide) \cup {9, 16, 1080, 1920, 100000}

ResizeCalls ==
    { [fn |-> "resize_for_aspect_ratio",
       image |-> [width |-> w, height |-> h, pixels |-> { << 0, 0, 0 >> }],
       width |-> DefaultConfig[r].width, height |-> DefaultConfig[r].height] :
         w \in Sides, h \in Sides, r \in 1..Len(DefaultConfig) }

\* campaign directories and the references looked up in them
Directories ==
    SUBSET { <<"logo.png">>, <<"assets", "logo.png">>, <<"img", "logo.png">>,
             <<"assets", "other.png">> }

References ==
    { << >>, <<"logo.png">>, <<"img", "logo.png">>, <<"assets", "logo.png">>,
      <<"img", "other.png">>, <<"none.png">> }

FindCalls ==
    { [fn |-> "find_asset", fs |-> d, reference |-> r] :
        d \in Directories, r \in References }

PromptCalls ==
    { [fn |-> "build_prompt", product_name |-> n, product_description |-> "desc",
       target_audience |-> "young adults", brand_color |-> c] :
        n \in {"Shampoo", "Conditioner"},
        c \in { << >>, <<"#", "F", "F", "0", "0", "0", "0">> } }

\* What the image backend may answer to one call of generate(): an image, or
\* an error of the client, of the download or of the decoding.
BackendImages ==
    GeneratedImages \cup
        { [width |-> 1024, height |-> 1024, pixels |-> { <<255, 255, 255>> }] }

BackendErrors == {"APIError", "HTTPError"}

BackendOutcomes ==
    { [ok |-> TRUE, image |-> i, kind |-> ""] : i \in BackendImages } \cup
    { [ok |-> FALSE, image |-> HeroPng, kind |-> k] : k \in BackendErrors }

\* generate: the image and the prompt, or the one Exception every error of
\* the backend is turned into
generate(c, outcome) ==
    IF outcome.ok
    THEN [raised |-> None,
          value |-> Some(<< outcome.image,
                            build_prompt(c.product_name, c.product_description,
                                         c.target_audience, c.brand_color) >>)]
    ELSE [raised |-> Some(GenerateError(c.product_name)), value |-> None]

\* mutant: only an error of the API client is retried
RECURSIVE RetryLoop_ApiErrorsOnly(_, _, _, _, _)
RetryLoop_ApiErrorsOnly(c, max_retries, backend, made, last) ==
    IF ~MoreAttempts(made, max_retries)
    THEN [calls |-> made, raised |-> Some(RetryError(max_retries, last)),
          value |-> None]
    ELSE LET g == generate(c, backend[made + 1])
         IN  IF IsNone(g.raised)
             THEN [calls |-> made + 1, raised |-> None, value |-> g.value]
             ELSE IF backend[made + 1].kind # "APIError"
             THEN [calls |-> made + 1, raised |-> g.raised, value |-> None]
             ELSE RetryLoop_ApiErrorsOnly(c, max_retries, backend, made + 1, g.raised)

\* generate_with_retry after `made` failed attempts, the last one with error
\* `last`; backend[k] is what the backend answers to the k-th call
RECURSIVE RetryLoop(_, _, _, _, _)
RetryLoop(c, max_retries, backend, made, last) ==
    IF ~MoreAttempts(made, max_retries)
    THEN [calls |-> made, raised |-> Some(RetryError(max_retries, last)),
          value |-> None]
    ELSE LET g == generate(c, backend[made + 1])
         IN  IF IsNone(g.raised)
             THEN [calls |-> made + 1, raised |-> None, value |-> g.value]
             ELSE RetryLoop(c, max_retries, backend, made + 1, g.raised)

generate_with_retry(c, max_retries, backend) ==
    RetryLoop(c, max_retries, backend, 0, None)

RetryCalls ==
    { [fn |-> "generate_with_retry", product_name |-> "Conditioner",
       product_description |-> "desc", target_audience |-> "young adults",
       brand_color |-> << >>, max_retries |-> n, backend |-> b] :
        n \in 0..MaxAttempts, b \in [1..MaxAttempts -> BackendOutcomes] }

Calls ==
    SweepCalls \cup ColorCalls \cup ResizeCalls \cup FindCalls \cup PromptCalls
        \cup RetryCalls

InitCalls ==
    /\ \E c \in Calls :
         /\ arg = Some(c)
         /\ InitState("idle", IF c.fn = "find_asset" THEN c.fs ELSE InitialFiles,
                      [status |-> "missing", data |-> EmptyBrief], DefaultConfig)
    /\ runs = 0
    /\ exit = None
    /\ twin = None
    /\ ret = None

\* what a call changes besides its result: nothing
OnlyRet ==
    UNCHANGED << files, brief_file, config, pc, brief, original_message,
                 moderation_safe, warnings, pi, ri, hero_image, source,
                 prompt_used, attempt, last_error, with_text, logo_path,
                 output_path, generated_assets, compliance_results, saves,
                 gen_calls, translate_calls, translate_failed, find_calls,
                 report, error, trace, runs, exit, twin, arg >>

CallCheckColor ==
    /\ pc = "idle"
    /\ arg[1].fn = "check_color_presence"
    /\ IsNone(ret)
    /\ ret' = Some([check |-> check_color_presence(arg[1].brand_color, arg[1].image),
                    checks |-> run_brand_checks(arg[1].brand_color, arg[1].image)])
    /\ OnlyRet

\* The code hands the box to the imaging library as it is.  What crop and
\* resize make of a box without area is the library's business: the call
\* raises or returns an image.
CallResize ==
    /\ pc = "idle"
    /\ arg[1].fn = "resize_for_aspect_ratio"
    /\ IsNone(ret)
    /\ LET out == resize_for_aspect_ratio(arg[1].image, arg[1].width, arg[1].height)
           empty == out.crop[3] <= out.crop[1] \/ out.crop[4] <= out.crop[2]
       IN  \E raised \in (IF empty THEN BOOLEAN ELSE {FALSE}) :
               ret' = Some([raised |-> raised, image |-> out])
    /\ OnlyRet

\* find_asset may be called again and again on the same directory
CallFindAsset ==
    /\ pc = "idle"
    /\ arg[1].fn = "find_asset"
    /\ ret' = Some(find_asset(files, arg[1].reference))
    /\ OnlyRet

CallBuildPrompt ==
    /\ pc = "idle"
    /\ arg[1].fn = "build_prompt"
    /\ IsNone(ret)
    /\ ret' = Some(build_prompt(arg[1].product_name, arg[1].product_description,
                                arg[1].target_audience, arg[1].brand_color))
    /\ OnlyRet

CallGenerateWithRetry ==
    /\ pc = "idle"
    /\ arg[1].fn = "generate_with_retry"
    /\ IsNone(ret)
    /\ ret' = Some(generate_with_retry(arg[1], arg[1].max_retries, arg[1].backend))
    /\ OnlyRet

NextCalls ==
    \/ CallCheckColor
    \/ CallResize
    \/ CallFindAsset
    \/ CallBuildPrompt
    \/ CallGenerateWithRetry

SpecCalls == InitCalls /\ [][NextCalls]_vars

---------------------------------------------------------------------------
(* Properties of a run *)

NumProducts == Len(brief.products)

NumRatios == Len(config)

\* the k-th (product, ratio) pair in processing order
PairProduct(k) == ((k - 1) \div NumRatios) + 1

PairRatio(k) == ((k - 1) % NumRatios) + 1

TraceCount(name, p, r) ==
    Cardinality({ k \in 1..Len(trace) : trace[k] = Step(name, p, r) })

SaveCount(p, name) ==
    Cardinality({ k \in 1..Len(saves) :
                    saves[k].product = p /\ saves[k].ratio = name })

HasSquare == \E r \in 1..NumRatios : config[r].name = "square"

\* C1: in a completed run every (product, ratio) pair has exactly one
\* save_output call, one saved file and one GeneratedAsset record, whatever
\* the compliance results are.
C1_OneAssetPerPair ==
    pc = "done" =>
        /\ Len(generated_assets) = NumProducts * NumRatios
        /\ Len(saves) = NumProducts * NumRatios
        /\ \A p \in 1..NumProducts : \A r \in 1..NumRatios :
             /\ SaveCount(p, config[r].name) = 1
             /\ TraceCount("record", p, r) = 1
             /\ OutputFile(brief.products[p].id, config[r].name) \in files
             /\ LET a == generated_assets[(p - 1) * NumRatios + r]
                IN  /\ a.product_id = brief.products[p].id
                    /\ a.product_name = brief.products[p].name
                    /\ a.aspect_ratio = config[r].name

C1_Witness ==
    /\ pc = "done"
    /\ \E i \in 1..Len(compliance_results) :
         /\ ~compliance_results[i].compliance.overall_passed
         /\ compliance_results[i].compliance.overall_score = 50
    /\ \E i \in 1..Len(compliance_results) :
         compliance_results[i].compliance.overall_passed

\* C2: the compliance check runs at most once per product, and after a
\* completed run exactly once per product when "square" is configured and
\* never when it is not; the results are recorded in product order.
C2_ComplianceOncePerProduct ==
    /\ \A p \in 1..NumProducts :
         Cardinality({ k \in 1..Len(trace) :
                         trace[k].step = "compliance" /\ trace[k].p = p }) <= 1
    /\ pc = "done" =>
         /\ Len(compliance_results) = IF HasSquare THEN NumProducts ELSE 0
         /\ \A p \in 1..Len(compliance_results) :
              /\ compliance_results[p].product_id = brief.products[p].id
              /\ compliance_results[p].product_name = brief.products[p].name
              /\ Cardinality({ k \in 1..Len(trace) :
                         trace[k].step = "compliance" /\ trace[k].p = p }) = 1

C2_Witness ==
    /\ pc = "done"
    /\ HasSquare
    /\ NumRatios = 3
    /\ Len(compliance_results) = 2

RetryExhausted ==
    /\ pc = "aborted"
    /\ ~IsNone(error)
    /\ error[1].text = "Failed after attempts"

GenCallsFor(p) == Cardinality({ k \in 1..Len(gen_calls) : gen_calls[k] = p })

\* C3: when the backend fails on every call for a product, the retry loop
\* makes exactly MAX_RETRIES calls for it, then run() is left by an error
\* naming the product, with no save and no GeneratedAsset for that product.
C3_RetriesThenAbort ==
    /\ pc = "generate" => attempt < MAX_RETRIES
    /\ RetryExhausted =>
         /\ attempt = MAX_RETRIES
         /\ GenCallsFor(pi) = 1
         /\ error[1].attempts = MAX_RETRIES
         /\ last_error = Some(GenerateError(brief.products[pi].name))
         /\ error[1].product = brief.products[pi].name
         /\ \A k \in 1..Len(saves) : saves[k].product # pi
         /\ \A k \in 1..Len(trace) :
              trace[k].p = pi => trace[k].step \in {"resolve", "generate"}
         /\ Len(generated_assets) = (pi - 1) * NumRatios

C3_Witness ==
    /\ RetryExhausted
    /\ pi = 2
    /\ Len(generated_assets) = 3

Resolves(p) == ~IsNone(find_asset(files, brief.products[p].hero_image))

\* C4: the records of a product whose hero image resolves have source
\* "existing" and no prompt, and the backend was never called for it; the
\* records of any other product have source "generated" and the prompt the
\* generation returned.  So prompt_used is set iff source is "generated".
C4_SourceAndPrompt ==
    \A k \in 1..Len(generated_assets) :
        LET a == generated_assets[k]
            p == PairProduct(k)
            product == brief.products[p]
        IN  /\ ~IsNone(a.prompt_used) <=> a.source = "generated"
            /\ a.source \in {"existing", "generated"}
            /\ Resolves(p) =>
                 /\ a.source = "existing"
                 /\ IsNone(a.prompt_used)
                 /\ GenCallsFor(p) = 0
            /\ ~Resolves(p) =>
                 /\ a.source = "generated"
                 /\ a.prompt_used =
                      Some(build_prompt(product.name, product.description,
                                        brief.target_audience, BrandColor(brief)))
                 /\ GenCallsFor(p) = 1

C4_Witness ==
    /\ \E k \in 1..Len(generated_assets) :
         generated_assets[k].source = "generated" /\ PairProduct(k) = 1
    /\ \E k \in 1..Len(generated_assets) :
         generated_assets[k].source = "existing" /\ PairProduct(k) = 2

\* the (product, ratio) pairs of the brief whose product has the id of
\* product i, in processing order
PairsWithIdOf(i) ==
    SelectSeq([k \in 1..(NumProducts * NumRatios) |-> k],
              LAMBDA k : brief.products[PairProduct(k)].id = brief.products[i].id)

\* C5: save_output calls and GeneratedAsset records follow the order
\* (brief order of products, configuration order of ratios); the report
\* lists the products in brief order and each product's variants in that
\* same processing order.
C5_ProcessingOrder ==
    /\ \A k \in 1..Len(saves) :
         /\ saves[k].product = PairProduct(k)
         /\ saves[k].ratio = config[PairRatio(k)].name
         /\ saves[k].path = OutputFile(brief.products[PairProduct(k)].id,
                                       config[PairRatio(k)].name)
    /\ \A k \in 1..Len(generated_assets) :
         /\ generated_assets[k].product_id = brief.products[PairProduct(k)].id
         /\ generated_assets[k].product_name = brief.products[PairProduct(k)].name
         /\ generated_assets[k].aspect_ratio = config[PairRatio(k)].name
         /\ generated_assets[k].file_path = saves[k].path
    /\ pc = "done" =>
         /\ Len(report[1].products) = NumProducts
         /\ \A i \in 1..NumProducts :
              LET entry == report[1].products[i]
                  pairs == PairsWithIdOf(i)
              IN  /\ entry.product_id = brief.products[i].id
                  /\ entry.product_name = brief.products[i].name
                  /\ Len(entry.variants) = Len(pairs)
                  /\ \A j \in 1..Len(pairs) :
                       /\ entry.variants[j].aspect_ratio =
                              config[PairRatio(pairs[j])].name
                       /\ entry.variants[j].file_path = saves[pairs[j]].path

C5_Witness ==
    /\ pc = "done"
    /\ NumRatios = 3
    /\ NumProducts = 2
    /\ brief.products[1].id # brief.products[2].id
    /\ Len(report[1].products[2].variants) = 3

ResolvedProducts == { p \in 1..NumProducts : Resolves(p) }

\* C6: the statistics of the report of a completed run over P products and
\* R ratios (square among them): P products, P*R assets, R reused per
\* resolved product, R generated per other product, one compliance result
\* per product, and no more passed results than results.
C6_ReportStatistics ==
    (pc = "done" /\ HasSquare) =>
        LET st == report[1].statistics
        IN  /\ st.total_products = NumProducts
            /\ st.total_assets = NumProducts * NumRatios
            /\ st.assets_reused = NumRatios * Cardinality(ResolvedProducts)
            /\ st.assets_generated =
                   NumRatios * (NumProducts - Cardinality(ResolvedProducts))
            /\ st.assets_generated + st.assets_reused = st.total_assets
            /\ st.compliance_total = NumProducts
            /\ st.compliance_passed <= st.compliance_total
            /\ st.compliance_passed =
                   Cardinality({ i \in 1..Len(compliance_results) :
                                   compliance_results[i].compliance.overall_passed })

C6_Witness ==
    /\ pc = "done"
    /\ NumRatios = 3
    /\ report[1].statistics.total_products = 2
    /\ report[1].statistics.total_assets = 6
    /\ report[1].statistics.assets_generated = 3
    /\ report[1].statistics.assets_reused = 3
    /\ report[1].statistics.compliance_total = 2

\* C7: an error raised while product pi is processed ends the run at once:
\* nothing later is processed, what earlier products saved stays on disk,
\* and no report is written or returned.
C7_FatalAbort ==
    /\ ~IsNone(error) => pc = "aborted"
    /\ (pc = "aborted" /\ pi >= 1) =>
         /\ ~ENABLED Next
         /\ \A k \in 1..Len(trace) : trace[k].p <= pi
         /\ trace[Len(trace)].p = pi
         /\ trace[Len(trace)].step \in {"resolve", "generate"}
         /\ Len(saves) = (pi - 1) * NumRatios
         /\ \A k \in 1..Len(saves) : saves[k].product < pi /\ saves[k].path \in files
         /\ Len(generated_assets) = (pi - 1) * NumRatios
         /\ ReportPath \notin files
         /\ IsNone(report)
         /\ TraceCount("report", 0, 0) = 0

C7_Witness ==
    /\ pc = "aborted"
    /\ pi = 2
    /\ error[1].text = "Failed to load image"
    /\ Len(saves) = 3
    /\ \A k \in 1..Len(saves) : saves[k].path \in files

BriefUnusable ==
    \/ brief_file.status # "ok"
    \/ ~validate_brief(brief_file.data).is_valid

\* C8: with a brief file that is missing, does not parse or does not
\* validate, run() is left by an error at its first step, before any
\* moderation, localization, asset lookup, generation, save or report; with
\* a valid brief the warnings are kept aside and the run moves on.
C8_BriefGate ==
    pc # "start" =>
        /\ BriefUnusable =>
             /\ pc = "aborted"
             /\ ~IsNone(error)
             /\ error[1].type =
                  (CASE brief_file.status = "missing" -> "FileNotFoundError"
                     [] brief_file.status = "malformed" -> "YAMLError"
                     [] OTHER -> "ValueError")
             /\ trace = << Step("parse", 0, 0) >>
             /\ IsNone(moderation_safe)
             /\ translate_calls = 0
             /\ find_calls = << >>
             /\ gen_calls = << >>
             /\ saves = << >>
             /\ generated_assets = << >>
             /\ files = InitialFiles
             /\ IsNone(report)
        /\ ~BriefUnusable =>
             /\ warnings = validate_brief(brief_file.data).warnings
             /\ Len(trace) = 1 => (pc = "moderate" /\ IsNone(error))
             /\ Len(trace) >= 2 => trace[2] = Step("moderate", 0, 0)

C8_Witness ==
    /\ pc = "aborted"
    /\ brief_file.status = "ok"
    /\ Len(brief_file.data.products) = 1
    /\ error[1].text = "Invalid brief"

WarningRank(kind) ==
    CASE kind = "product_count" -> 1
      [] kind = "missing_hero_images" -> 2
      [] kind = "no_brand_elements" -> 3
      [] OTHER -> 0

\* what ParseBrief made of validate_brief's answer
BriefWasRejected == pc = "aborted" /\ Len(trace) = 1

\* C9: validate_brief answers is_valid exactly for briefs of two or more
\* products, whatever else is missing; a brief of 0 or 1 products gets a
\* warning with its product count; the warnings come in the order product
\* count, missing hero images (one warning with all the names), missing
\* brand elements.
C9_ValidateBrief ==
    (pc # "start" /\ brief_file.status = "ok") =>
        LET b == brief_file.data
            n == Len(b.products)
            noHero == { i \in 1..n : b.products[i].hero_image = << >> }
            OfKind(kind) == { i \in 1..Len(warnings) : warnings[i].kind = kind }
        IN  /\ BriefWasRejected <=> n < 2
            /\ \A i \in 1..Len(warnings) : WarningRank(warnings[i].kind) > 0
            /\ \A i \in 1..Len(warnings) : \A j \in 1..Len(warnings) :
                 i < j => WarningRank(warnings[i].kind) < WarningRank(warnings[j].kind)
            /\ Cardinality(OfKind("product_count")) = IF n < 2 THEN 1 ELSE 0
            /\ \A i \in OfKind("product_count") : warnings[i].count = n
            /\ Cardinality(OfKind("missing_hero_images")) =
                   IF noHero = {} THEN 0 ELSE 1
            /\ \A i \in OfKind("missing_hero_images") :
                 /\ Len(warnings[i].names) = Cardinality(noHero)
                 /\ { warnings[i].names[k] : k \in 1..Len(warnings[i].names) } =
                        { b.products[k].name : k \in noHero }
            /\ Cardinality(OfKind("no_brand_elements")) =
                   IF IsNone(b.brand_elements) THEN 1 ELSE 0

C9_Witness ==
    /\ BriefWasRejected
    /\ brief_file.status = "ok"
    /\ Len(warnings) = 3
    /\ warnings[1] = [kind |-> "product_count", count |-> 1]
    /\ warnings[2] = [kind |-> "missing_hero_images", names |-> << "Conditioner" >>]
    /\ warnings[3] = [kind |-> "no_brand_elements"]

\* the run is past its localization step
Localized == Len(trace) >= 3

LocalizationSkipped ==
    /\ translate_calls = 0
    /\ brief.campaign_message = brief_file.data.campaign_message
    /\ brief.brand_elements = brief_file.data.brand_elements
    /\ Len(trace) >= 3 /\ trace[3] = Step("localize", 0, 0)
    /\ pc = "done" =>
         /\ report[1].localization.enabled = FALSE
         /\ IsNone(report[1].localization.localized_message)

\* C10 as claimed: localization is skipped for every English language code
\* (base language "en").
C10_SkippedForEveryEnglishCode ==
    (Localized /\ brief.target_market.language[1] = "en") => LocalizationSkipped

\* C10: localization is skipped when the language is exactly "en" or
\* "en-US": the backend is not called, message and brand elements stay as
\* in the brief file and the report says enabled = false; and the backend
\* is called only for a language that is neither of the two.
C10_SkippedForEnAndEnUS ==
    /\ (Localized /\ brief.target_market.language \in { <<"en">>, <<"en", "US">> })
           => LocalizationSkipped
    /\ translate_calls > 0 =>
           brief.target_market.language \notin { <<"en">>, <<"en", "US">> }

C10_Witness ==
    /\ pc = "done"
    /\ brief.target_market.language = <<"en">>
    /\ ~IsNone(brief.brand_elements)
    /\ brief.brand_elements[1].font = "Helvetica"
    /\ report[1].localization.enabled = FALSE

\* what the localization step may change in the brief: the message and
\* the font of the brand elements, nothing else
SameButMessageAndFont(b, original) ==
    /\ b = [original EXCEPT !.campaign_message = b.campaign_message,
                            !.brand_elements = b.brand_elements]
    /\ IsNone(b.brand_elements) <=> IsNone(original.brand_elements)
    /\ ~IsNone(b.brand_elements) =>
         b.brand_elements[1] =
             [original.brand_elements[1] EXCEPT !.font = b.brand_elements[1].font]

\* C11: once localization ran, the message of the brief is the text
\* translate_text returned and stays so: every render saved so far and the
\* render in hand carry exactly that text, the brief differs from the brief
\* file in message and font only, and the report of the completed run gives
\* the brief file's message as original_message and the localized text as
\* localized_message.
C11_LocalizedMessageDownstream ==
    (Localized /\ NeedsLocalization(brief_file.data.target_market.language)) =>
        /\ original_message = brief_file.data.campaign_message
        /\ brief.campaign_message \in
               BackendTranslations(original_message) \cup { original_message }
        /\ SameButMessageAndFont(brief, brief_file.data)
        /\ \A k \in 1..Len(saves) : saves[k].text = brief.campaign_message
        /\ pc \in {"compliance", "save", "record"} =>
               with_text[1].text = brief.campaign_message
        /\ pc = "done" =>
               /\ report[1].localization.original_message =
                      brief_file.data.campaign_message
               /\ report[1].localization.localized_message =
                      Some(brief.campaign_message)

C11_Witness ==
    /\ pc = "done"
    /\ brief.target_market.language = <<"es">>
    /\ Len(saves) = 6
    /\ saves[1].text = <<"P", "u", "r", "o">>
    /\ saves[6].text = <<"P", "u", "r", "o">>
    /\ report[1].localization.original_message = <<"P", "u", "r", "e">>
    /\ report[1].localization.localized_message = Some(<<"P", "u", "r", "o">>)

\* C12: a failure of the translation backend does not end the run: the
\* message stays the original one, the step after localization is the
\* first product, any error that ends the run later comes from the
\* processing of a product, and the report of the completed run has
\* localized_message equal to original_message, enabled = true and the
\* language of the brief as target_language.
C12_TranslationFailureNotFatal ==
    /\ translate_failed <= translate_calls
    /\ translate_failed > 0 =>
         /\ Localized
         /\ brief.campaign_message = brief_file.data.campaign_message
         /\ original_message = brief_file.data.campaign_message
         /\ Len(trace) = 3 => (pc = "product" /\ pi = 1 /\ IsNone(error))
         /\ ~IsNone(error) =>
              /\ pi >= 1
              /\ error[1].text \in {"Failed to load image", "Failed after attempts"}
         /\ pc = "done" =>
              /\ Len(generated_assets) = NumProducts * NumRatios
              /\ ReportPath \in files
              /\ report[1].localization.enabled = TRUE
              /\ report[1].localization.target_language =
                     brief_file.data.target_market.language
              /\ report[1].localization.localized_message =
                     Some(report[1].localization.original_message)
              /\ report[1].localization.original_message =
                     brief_file.data.campaign_message

C12_Witness ==
    /\ pc = "done"
    /\ translate_failed = 1
    /\ brief.target_market.language = <<"es">>
    /\ Len(generated_assets) = 6
    /\ report[1].localization.localized_message = Some(<<"C", "U", "R", "E", "S">>)

\* term.lower() in text.lower() for one of the default terms
HasProhibitedTerm(message) ==
    \E term \in { DefaultTerms[i] : i \in 1..Len(DefaultTerms) } :
        Contains(Lower(message), term)

ComplianceSteps ==
    Cardinality({ k \in 1..Len(trace) : trace[k].step = "compliance" })

\* C14 as claimed: the asset list and the compliance list hold what the
\* current call of run() created and nothing else, so the report a call
\* returns counts the assets saved and the checks made during that call.
C14_ListsScopedToOneRun ==
    /\ pc = "start" => (generated_assets = << >> /\ compliance_results = << >>)
    /\ pc = "done" =>
         /\ Len(generated_assets) = Len(saves)
         /\ Len(compliance_results) = ComplianceSteps
         /\ report[1].statistics.total_assets = Len(saves)
         /\ report[1].statistics.compliance_total = ComplianceSteps

\* C20: the command ends with code 0 exactly when construction and run()
\* completed without an error, and with code 1 when an error reached
\* main(): "Error" for a FileNotFoundError, "Validation Error" for a
\* ValueError, "Pipeline Error" for any other error.
C20_ExitCodes ==
    ~IsNone(exit) =>
        /\ exit[1].code \in {0, 1}
        /\ exit[1].code = 0 <=> (pc = "done" /\ IsNone(error) /\ ~IsNone(report))
        /\ exit[1].code = 1 <=> (pc = "aborted" /\ ~IsNone(error))
        /\ exit[1].code = 0 => exit[1].prefix = "Pipeline completed successfully"
        /\ ~IsNone(error) =>
             /\ error[1].type \in
                    {"FileNotFoundError", "ValueError", "YAMLError", "Exception"}
             /\ error[1].type = "FileNotFoundError" => exit[1].prefix = "Error"
             /\ error[1].type = "ValueError" => exit[1].prefix = "Validation Error"
             /\ error[1].type \in {"YAMLError", "Exception"} =>
                    exit[1].prefix = "Pipeline Error"

C20_Witness ==
    /\ ~IsNone(exit)
    /\ exit[1].code = 1
    /\ exit[1].prefix = "Pipeline Error"
    /\ error[1].text = "Failed after attempts"
    /\ Len(saves) = 3

\* the steps that may directly follow step s in one call of run()
Successors(s) ==
    LET firstOfProduct(p) == { Step("resolve", p, 0) }
        afterProduct(p) == IF p < NumProducts THEN firstOfProduct(p + 1)
                           ELSE { Step("report", 0, 0) }
        firstRatio(p) == IF NumRatios >= 1 THEN { Step("render", p, 1) }
                         ELSE afterProduct(p)
    IN  CASE s.step = "parse" -> { Step("moderate", 0, 0) }
          [] s.step = "moderate" -> { Step("localize", 0, 0) }
          [] s.step = "localize" -> IF NumProducts >= 1 THEN firstOfProduct(1)
                                    ELSE { Step("report", 0, 0) }
          [] s.step = "resolve" -> { Step("generate", s.p, 0) } \cup firstRatio(s.p)
          [] s.step = "generate" -> firstRatio(s.p)
          [] s.step = "render" -> IF config[s.r].name = "square"
                                  THEN { Step("compliance", s.p, s.r) }
                                  ELSE { Step("save", s.p, s.r) }
          [] s.step = "compliance" -> { Step("save", s.p, s.r) }
          [] s.step = "save" -> { Step("record", s.p, s.r) }
          [] s.step = "record" -> IF s.r < NumRatios
                                  THEN { Step("render", s.p, s.r + 1) }
                                  ELSE afterProduct(s.p)
          [] OTHER -> { }

\* the position of step s in the order of one call of run()
StepRank(s) ==
    LET perRatio == 4
        perProduct == 2 + perRatio * NumRatios
        inRatio == CASE s.step = "render" -> 1
                     [] s.step = "compliance" -> 2
                     [] s.step = "save" -> 3
                     [] OTHER -> 4
    IN  CASE s.step = "parse" -> 1
          [] s.step = "moderate" -> 2
          [] s.step = "localize" -> 3
          [] s.step = "resolve" -> 3 + (s.p - 1) * perProduct + 1
          [] s.step = "generate" -> 3 + (s.p - 1) * perProduct + 2
          [] s.step = "report" -> 3 + NumProducts * perProduct + 1
          [] OTHER -> 3 + (s.p - 1) * perProduct + 2 + (s.r - 1) * perRatio + inRatio

ReportSteps == Cardinality({ k \in 1..Len(trace) : trace[k].step = "report" })

\* C21: the steps of a run follow one another in the order parse, moderate,
\* localize, then per product resolve (and generate), then per ratio render,
\* compliance if square, save, record, then report; no step is followed by
\* an earlier one.  The report is written once, as the last step of a
\* completed run, right after the record of the last (product, ratio) pair,
\* and never in a run that did not complete.  A square render is checked
\* right before it is saved.
C21_StepOrder ==
    /\ Len(trace) >= 1 => trace[1] = Step("parse", 0, 0)
    /\ \A k \in 1..(Len(trace) - 1) :
         /\ trace[k + 1] \in Successors(trace[k])
         /\ StepRank(trace[k]) < StepRank(trace[k + 1])
    /\ ReportSteps <= 1
    /\ pc = "done" =>
         /\ ReportSteps = 1
         /\ trace[Len(trace)] = Step("report", 0, 0)
         /\ ~IsNone(report)
         /\ ReportPath \in files
         /\ Len(generated_assets) = NumProducts * NumRatios
         /\ (NumProducts >= 1 /\ NumRatios >= 1) =>
                trace[Len(trace) - 1] = Step("record", NumProducts, NumRatios)
    /\ pc # "done" =>
         /\ ReportSteps = 0
         /\ IsNone(report)
         /\ ReportPath \notin files
    /\ \A k \in 1..Len(trace) :
         (trace[k].step = "save" /\ config[trace[k].r].name = "square") =>
            /\ k > 1
            /\ trace[k - 1] = Step("compliance", trace[k].p, trace[k].r)

C21_Witness ==
    /\ pc = "done"
    /\ NumProducts = 2
    /\ NumRatios = 3
    /\ TraceCount("generate", 2, 0) = 1
    /\ TraceCount("compliance", 1, 1) = 1
    /\ TraceCount("compliance", 2, 1) = 1

RECURSIVE SumOfVariants(_)
SumOfVariants(entries) ==
    IF entries = << >> THEN 0
    ELSE Len(entries[1].variants) + SumOfVariants(Tail(entries))

\* C23 as claimed: in the report of a completed run every product entry
\* lists one variant per configured ratio, the variants of all entries add
\* up to statistics.total_assets, and the compliance result of the i-th
\* entry is the one computed on the square render of the i-th product.
C23_GroupingMatchesStatistics ==
    pc = "done" =>
        LET entries == report[1].products
        IN  /\ Len(entries) = NumProducts
            /\ \A i \in 1..NumProducts :
                 /\ Len(entries[i].variants) = NumRatios
                 /\ \A r \in 1..NumRatios :
                      entries[i].variants[r].aspect_ratio = config[r].name
            /\ SumOfVariants(entries) = report[1].statistics.total_assets
            /\ HasSquare =>
                 \A i \in 1..NumProducts :
                    entries[i].compliance = Some(compliance_results[i].compliance)

\* the GeneratedAsset record of ratio r of the p-th product of the brief
AssetOf(p, r) == generated_assets[(p - 1) * NumRatios + r]

\* C24 as claimed: for each product the hero image is looked up once and
\* generate_with_retry is invoked at most once, before the first render of
\* the product; the records of one product share source and prompt_used;
\* and in the report of a completed run the source and prompt_used of the
\* i-th entry are those of every variant of the i-th product.
C24_HeroResolvedOncePerProduct ==
    /\ \A p \in 1..NumProducts :
         /\ TraceCount("resolve", p, 0) <= 1
         /\ TraceCount("generate", p, 0) <= 1
         /\ GenCallsFor(p) <= 1
         /\ \A k \in 1..Len(trace) :
              (trace[k].p = p /\ trace[k].step \in {"generate", "render"}) =>
                 \E j \in 1..(k - 1) : trace[j] = Step("resolve", p, 0)
         /\ \A k \in 1..Len(trace) :
              (trace[k].p = p /\ trace[k].step = "generate") =>
                 \A j \in 1..k : ~(trace[j].p = p /\ trace[j].step = "render")
    /\ \A k, j \in 1..Len(generated_assets) :
         PairProduct(k) = PairProduct(j) =>
            /\ generated_assets[k].source = generated_assets[j].source
            /\ generated_assets[k].prompt_used = generated_assets[j].prompt_used
    /\ pc = "done" =>
         \A i \in 1..NumProducts : \A r \in 1..NumRatios :
            /\ report[1].products[i].source = AssetOf(i, r).source
            /\ report[1].products[i].prompt_used = AssetOf(i, r).prompt_used

---------------------------------------------------------------------------
(* Properties of the utility functions *)

CallDone(fn) ==
    /\ pc = "idle"
    /\ ~IsNone(arg)
    /\ arg[1].fn = fn
    /\ ~IsNone(ret)

\* C15 as claimed: for every brand colour, the image filled with the brand
\* colour passes with score 100 and the image filled with the negated
\* colour fails with score 50.
C15_ComplementAlwaysFails ==
    (CallDone("check_color_presence") /\ arg[1].channels # << >>) =>
        LET rgb == arg[1].channels
            check == ret[1].check
        IN  /\ arg[1].image.pixels = { rgb } =>
                 (check.passed /\ check.score = 100)
            /\ arg[1].image.pixels = { Negate(rgb) } =>
                 (~check.passed /\ check.score = 50)

\* C15: the image filled with the brand colour passes with score 100; the
\* image filled with the negated colour fails with score 50 exactly when
\* some channel of the brand colour lies outside 113..142, and passes with
\* score 100 when all three lie inside (each channel then differs from its
\* negation by less than 30).
C15_ComplementFailsOutsideMidRange ==
    (CallDone("check_color_presence") /\ arg[1].channels # << >>) =>
        LET rgb == arg[1].channels
            check == ret[1].check
            middle == \A i \in 1..3 : rgb[i] \in 113..142
        IN  /\ arg[1].image.pixels = { rgb } =>
                 (check.passed /\ check.score = 100)
            /\ (arg[1].image.pixels = { Negate(rgb) } /\ ~middle) =>
                 (~check.passed /\ check.score = 50)
            /\ (arg[1].image.pixels = { Negate(rgb) } /\ middle) =>
                 (check.passed /\ check.score = 100)

C15_Witness ==
    /\ CallDone("check_color_presence")
    /\ arg[1].channels = << 255, 0, 128 >>
    /\ arg[1].brand_color = <<"#", "F", "F", "0", "0", "8", "0">>
    /\ arg[1].image.pixels = { << 0, 255, 127 >> }
    /\ ~ret[1].check.passed
    /\ ret[1].check.score = 50

\* what _hex_to_rgb makes of the brand colour strings: None where it raises
ParsedBrandColor(bc) ==
    CASE bc = <<"#", "6", "4", "6", "4", "6", "4">> -> Some(<< 100, 100, 100 >>)
      [] bc = <<"6", "4", "6", "4", "6", "4">> -> Some(<< 100, 100, 100 >>)
      [] bc = <<"#", "#", "6", "4", "6", "4", "6", "4">> -> Some(<< 100, 100, 100 >>)
      [] bc = <<"#", "6", "4", "6", "4", "6">> -> Some(<< 100, 100, 6 >>)
      [] bc = <<"#", "-", "1", "-", "1", "-", "1">> -> Some(<< -1, -1, -1 >>)
      [] OTHER -> None

\* C16: check_color_presence ends in one of four ways: without a brand
\* colour it passes with score 100 (skipped); with a brand colour that does
\* not parse it fails with score 0; otherwise it passes with score 100 if
\* some sampled pixel differs from the brand colour by at most 29 in each
\* of the three channels, and fails with score 50 if none does.
\* run_brand_checks reports that one result as overall_passed and
\* overall_score.
C16_FourOutcomes ==
    CallDone("check_color_presence") =>
        LET bc == arg[1].brand_color
            pixels == arg[1].image.pixels
            check == ret[1].check
            expected == IF arg[1].channels # << >> THEN Some(arg[1].channels)
                        ELSE ParsedBrandColor(bc)
        IN  /\ bc = << >> =>
                 (check.passed /\ check.score = 100 /\ check.message = "skipped")
            /\ (bc # << >> /\ IsNone(expected)) =>
                 (~check.passed /\ check.score = 0 /\ check.message = "check failed")
            /\ (bc # << >> /\ ~IsNone(expected)) =>
                 IF \E px \in pixels :
                        \A i \in 1..3 : Abs(px[i] - expected[1][i]) <= 29
                 THEN check.passed /\ check.score = 100
                 ELSE ~check.passed /\ check.score = 50
            /\ ret[1].checks.overall_passed = check.passed
            /\ ret[1].checks.overall_score = check.score
            /\ ret[1].checks.checks.color_presence = check

C16_Witness ==
    /\ CallDone("check_color_presence")
    /\ arg[1].brand_color = <<"#", "F", "F", "F">>
    /\ arg[1].image.pixels = { << 100, 100, 100 >> }
    /\ ~ret[1].checks.overall_passed
    /\ ret[1].checks.overall_score = 0

\* C17 as claimed: for every source of at least 1 x 1 and every configured
\* target size the crop box has positive width and height and lies within
\* the source, and the call returns an image of exactly the target size.
C17_CropBoxAndExactSize ==
    CallDone("resize_for_aspect_ratio") =>
        LET src == arg[1].image
            box == ret[1].image.crop
        IN  /\ box[1] < box[3]
            /\ box[2] < box[4]
            /\ 0 <= box[1] /\ box[3] <= src.width
            /\ 0 <= box[2] /\ box[4] <= src.height
            /\ ~ret[1].raised
            /\ ret[1].image.width = arg[1].width
            /\ ret[1].image.height = arg[1].height

\* C18: find_asset answers not-found for an empty reference; otherwise the
\* root-relative path if it exists, whether or not the base name also
\* exists under assets/; otherwise the base name under assets/ if that
\* exists; otherwise not-found.  The directory is as it was before the
\* call, and every further call leaves the same answer.
C18_FindAssetOrder ==
    CallDone("find_asset") =>
        LET reference == arg[1].reference
            found == ret[1]
            in_assets == <<"assets", reference[Len(reference)]>>
        IN  /\ files = arg[1].fs
            /\ reference = << >> => IsNone(found)
            /\ (reference # << >> /\ reference \in files) =>
                 found = Some(reference)
            /\ (reference # << >> /\ reference \notin files /\ in_assets \in files) =>
                 found = Some(in_assets)
            /\ (reference # << >> /\ reference \notin files /\ in_assets \notin files) =>
                 IsNone(found)

C18_Witness ==
    /\ CallDone("find_asset")
    /\ arg[1].reference = <<"img", "logo.png">>
    /\ <<"img", "logo.png">> \in files
    /\ <<"assets", "logo.png">> \in files
    /\ ret[1] = Some(<<"img", "logo.png">>)

\* the parts of a prompt, as the claim names them
Framing(c) == <<"Professional product photography of ", c.product_name, ".">>

Description(c) == <<"Product details: ", c.product_description, ".">>

StyleLine(c) == <<"Style: Clean, modern, appealing to ", c.target_audience, ".">>

QualityLine == <<"High quality, well-lit, studio setting.">>

ClosingLine == <<"Commercial photography, 4K quality.">>

AccentLine(c) == <<"Incorporate ", c.brand_color, " color accent.">>

IsAccentLine(part) == Len(part) = 3 /\ part[1] = "Incorporate "

\* C19 as claimed: framing, description, style line, the fixed boilerplate
\* and then, only with a brand colour, the colour-accent line as the last
\* part; no colour-accent line without a brand colour.
C19_AccentLineLast ==
    CallDone("build_prompt") =>
        LET c == arg[1]
            parts == ret[1]
            opening == << Framing(c), Description(c), StyleLine(c), QualityLine >>
        IN  /\ SubSeq(parts, 1, 4) = opening
            /\ c.brand_color # << >> => parts[Len(parts)] = AccentLine(c)
            /\ c.brand_color = << >> =>
                 \A i \in 1..Len(parts) : ~IsAccentLine(parts[i])

\* C19: the parts come in the order framing, description, style line,
\* the quality line, then, only with a brand colour, the colour-accent
\* line, and last, always, the closing line; without a brand colour the
\* prompt has no colour-accent line.
C19_AccentLineBeforeClosing ==
    CallDone("build_prompt") =>
        LET c == arg[1]
            parts == ret[1]
        IN  IF c.brand_color # << >>
            THEN parts = << Framing(c), Description(c), StyleLine(c), QualityLine,
                            AccentLine(c), ClosingLine >>
            ELSE /\ parts = << Framing(c), Description(c), StyleLine(c),
                               QualityLine, ClosingLine >>
                 /\ \A i \in 1..Len(parts) : ~IsAccentLine(parts[i])

C19_Witness ==
    /\ CallDone("build_prompt")
    /\ arg[1].brand_color = <<"#", "F", "F", "0", "0", "0", "0">>
    /\ Len(ret[1]) = 6
    /\ IsAccentLine(ret[1][5])
    /\ ret[1][6] = <<"Commercial photography, 4K quality.">>

\* the attempts of the call in arg on which the backend answers an image
SuccessfulAttempts ==
    { k \in 1..arg[1].max_retries : arg[1].backend[k].ok }

FirstSuccess == CHOOSE k \in SuccessfulAttempts : \A j \in SuccessfulAttempts : k <= j

\* C22: generate_with_retry calls the backend at most max_retries times.  If
\* the backend first answers an image on attempt k <= max_retries, exactly k
\* calls are made and the image of attempt k is returned with the prompt,
\* whatever the kinds of the k - 1 errors before it.  It raises exactly when
\* none of the max_retries attempts succeeded, after max_retries calls, with
\* the "Failed after" error that carries the last attempt's error.
C22_RetryUntilFirstSuccess ==
    CallDone("generate_with_retry") =>
        LET c == arg[1]
            o == ret[1]
        IN  /\ o.calls <= c.max_retries
            /\ SuccessfulAttempts # { } =>
                 /\ o.calls = FirstSuccess
                 /\ IsNone(o.raised)
                 /\ o.value =
                      Some(<< c.backend[FirstSuccess].image,
                              build_prompt(c.product_name, c.product_description,
                                           c.target_audience, c.brand_color) >>)
            /\ ~IsNone(o.raised) <=> SuccessfulAttempts = { }
            /\ ~IsNone(o.raised) =>
                 /\ o.calls = c.max_retries
                 /\ IsNone(o.value)
                 /\ o.raised[1].text = "Failed after attempts"
                 /\ o.raised[1].attempts = c.max_retries
                 /\ c.max_retries >= 1 => o.raised[1].product = c.product_name

\* a first success on the last attempt, after errors of two kinds, while
\* the first attempt of another call would have returned another image
C22_Witness ==
    /\ CallDone("generate_with_retry")
    /\ arg[1].max_retries = MAX_RETRIES
    /\ arg[1].backend[1].kind = "HTTPError"
    /\ arg[1].backend[2].kind = "APIError"
    /\ arg[1].backend[3].ok
    /\ arg[1].backend[3].image \notin GeneratedImages
    /\ ret[1].calls = 3
    /\ IsNone(ret[1].raised)

====
